---- MODULE Spec2Model ----
(***************************************************************************)
(* Token lifecycle and resilient request pipeline of cafe24-automation-hub *)
(*   src/src/core/token_manager.py   TokenManager                          *)
(*   src/src/core/auth_manager.py    AuthManager                           *)
(*   src/src/api/client.py           Cafe24Client                          *)
(* Wall time is counted in ticks, TicksPerSecond ticks to the second, so   *)
(* that datetime arithmetic keeps its sub-second part and int() truncates. *)
(***************************************************************************)
EXTENDS Integers, Sequences, FiniteSets, TLC

VARIABLES
    now,                    \* datetime.now(), in ticks
    file,                   \* .tokens.encrypted: token type -> record
    redis,                  \* external cache: token type -> record with deadline
    redisOn,                \* TokenManager._redis_client is not None
    obs,                    \* what the last AuthManager call did and returned
    nAdv,                   \* clock advances made by the environment
    max_retries,            \* settings.max_retries
    stack,                  \* frames of the recursive Cafe24Client.request
    pc,                     \* position of the innermost frame
    outcome,                \* what the finished frame returned or raised
    attempts,               \* HTTP attempts issued by the outer call
    refreshes,              \* refresh_access_token calls made by the 401 handler
    only,                   \* the one class all answers so far belong to
    budget,                 \* retry_count of the outer call
    lastEvent,              \* the answer the last HTTP attempt received
    requests_this_minute,   \* Cafe24Client._requests_this_minute
    rate_limit_reset,       \* Cafe24Client._rate_limit_reset
    sleepers,               \* caller -> end of its asyncio.sleep in _handle_rate_limit
    passed,                 \* attempts let through since the window start last moved
    tobs,                   \* what the last TokenManager call did and returned
    saved,                  \* token type -> the last save_token still in force
    settings,               \* the environment, and the Settings made from it
    session,                \* Cafe24Client._session_cache and the transports made
    flight                  \* refresh requests of concurrent callers awaiting an answer

storeVars == <<file, redis, redisOn>>
clientVars == <<max_retries, stack, pc, outcome, attempts, refreshes, only,
                budget, lastEvent, requests_this_minute, rate_limit_reset>>
bootVars == <<settings, session, flight>>
auxVars == <<sleepers, passed, tobs, saved, settings, session, flight>>
vars == <<now, file, redis, redisOn, obs, nAdv, max_retries, stack, pc, outcome,
          attempts, refreshes, only, budget, lastEvent, requests_this_minute,
          rate_limit_reset, sleepers, passed, tobs, saved, settings, session,
          flight>>

----------------------------------------------------------------------------
(* Bounds of the model *)

TicksPerSecond == 2
MaxRetries == 1
MaxAdvances == 2
MaxCallers == 2
MaxGenerated == 2
MaxTransports == 3

(* Program constants *)

SafetyMargin == 300
DefaultExpiresIn == 7200
RefreshLifetime == 2592000
WindowSeconds == 60
ThrottleCeiling == 95
DefaultRetryAfter == 60
BackoffFactor == 2
ErrorPause == 1
NoTime == -1

Seconds(s) == s * TicksPerSecond

\* int(timedelta.total_seconds()): truncation toward zero
IntSeconds(ticks) ==
    IF ticks >= 0 THEN ticks \div TicksPerSecond
                  ELSE -((-ticks) \div TicksPerSecond)

----------------------------------------------------------------------------
(* TokenManager: the cipher and the two stores *)

TokenTypes == {"access", "refresh"}

\* Fernet keys: the key of this process, and the key of an earlier process
\* (settings.py:31 draws a new key at every start when ENCRYPTION_KEY is not
\* set, and so does _init_cipher for a key Fernet rejects). A ciphertext can
\* be decrypted with the key that made it and with no other.
CipherKey == "k1"
OldKey == "k0"
Keys == {CipherKey, OldKey}

EncryptWith(key, token) == [enc |-> token, key |-> key]
EncryptSkipped(token) == [enc |-> token, key |-> "plaintext"]
Encrypt(token) == EncryptWith(CipherKey, token)
\* Fernet.decrypt raises InvalidToken for a ciphertext of another key
Decryptable(cipher) == cipher.key = CipherKey
DecryptGarbled(cipher) == IF cipher.enc = "" THEN cipher.enc ELSE "garbled"
Decrypt(cipher) == cipher.enc

\* how the storage behaves during one call: both stores work, every command
\* of the cache raises, or every open of the file raises
IoModes == {"ok", "cache_down", "disk_down"}

EmptyMap == [t \in {} |-> 0]
NoData == [token |-> Encrypt(""), expires_at |-> 0]
Miss == [found |-> FALSE, data |-> NoData]
Hit(d) == [found |-> TRUE, data |-> d]

MapPut(m, k, v) == [t \in DOMAIN m \cup {k} |-> IF t = k THEN v ELSE m[t]]
MapDel(m, k) == [t \in DOMAIN m \ {k} |-> m[t]]

\* redis GET: a key past its native expiry is gone
RedisGet(r, type, t) ==
    IF type \in DOMAIN r /\ t <= r[type].deadline
    THEN Hit(r[type].data) ELSE Miss

\* _load_all_tokens: the file is one ciphertext; a file that cannot be opened
\* or decrypted reads as no tokens
LoadAllTokens(f, io) ==
    IF io = "disk_down" \/ \E type \in DOMAIN f : ~Decryptable(f[type].token)
    THEN EmptyMap ELSE f

\* _save_all_tokens: a failing write is logged and nothing else
SaveAllTokens(f, tokens, io) == IF io = "disk_down" THEN f ELSE tokens

\* _load_from_file
LoadFromFile(f, type, io) ==
    LET tokens == LoadAllTokens(f, io)
    IN  IF type \in DOMAIN tokens THEN Hit(tokens[type]) ELSE Miss

\* get_token, lines 137-157: cache first, then the file
LookupToken(f, r, on, type, t, io) ==
    LET cached == RedisGet(r, type, t)
    IN  IF on /\ cached.found THEN cached ELSE LoadFromFile(f, type, io)

\* get_token_info, lines 295-309: with a cache configured the file is not read
LookupInfo(f, r, on, type, t, io) ==
    IF on THEN RedisGet(r, type, t) ELSE LoadFromFile(f, type, io)

\* save_token: the cache is written first; setex raises when the cache is down
\* and for a non-positive expiry, and then nothing is written
SaveToken(f, r, on, type, token, expires_in, t, io) ==
    LET data == [token |-> Encrypt(token), expires_at |-> t + Seconds(expires_in)]
    IN  IF on /\ (io = "cache_down" \/ expires_in <= 0)
        THEN [file |-> f, redis |-> r, ok |-> FALSE]
        ELSE [file  |-> SaveAllTokens(f, MapPut(LoadAllTokens(f, io), type, data), io),
              redis |-> IF on
                        THEN MapPut(r, type,
                                 [data |-> data, deadline |-> t + Seconds(expires_in)])
                        ELSE r,
              ok |-> TRUE]

DeleteNothing(f, r, on, type, io) == [file |-> f, redis |-> r, ok |-> TRUE]
\* delete_token: the cache key, then the file when it holds the type
DeleteToken(f, r, on, type, io) ==
    IF on /\ io = "cache_down"
    THEN [file |-> f, redis |-> r, ok |-> FALSE]
    ELSE [file |-> IF type \in DOMAIN LoadAllTokens(f, io)
                   THEN SaveAllTokens(f, MapDel(LoadAllTokens(f, io), type), io)
                   ELSE f,
          redis |-> IF on THEN MapDel(r, type) ELSE r,
          ok |-> TRUE]

ClearAllFileOnly(f, r, on, io) == [file |-> EmptyMap, redis |-> r, ok |-> TRUE]
\* clear_all: the cache keys, then the file is unlinked
ClearAll(f, r, on, io) ==
    IF on /\ io = "cache_down"
    THEN [file |-> f, redis |-> r, ok |-> FALSE]
    ELSE [file |-> IF io = "disk_down" THEN f ELSE EmptyMap,
          redis |-> IF on THEN EmptyMap ELSE r,
          ok |-> io # "disk_down" \/ f = EmptyMap]

\* what leaves the try of a lookup
Absent(f, r) == [some |-> FALSE, token |-> "", raised |-> FALSE, file |-> f, redis |-> r]
Fails(f, r) == [some |-> FALSE, token |-> "", raised |-> TRUE, file |-> f, redis |-> r]

\* lines 138-171: the body of get_token
GetTokenBody(f, r, on, type, t, io) ==
    LET found == LookupToken(f, r, on, type, t, io)
        gone == DeleteToken(f, r, on, type, io)
    IN  IF on /\ io = "cache_down" THEN Fails(f, r)
        ELSE IF ~found.found THEN Absent(f, r)
        ELSE IF t > found.data.expires_at THEN Absent(gone.file, gone.redis)
        ELSE IF ~Decryptable(found.data.token) THEN Fails(f, r)
        ELSE [some |-> TRUE, token |-> Decrypt(found.data.token), raised |-> FALSE,
              file |-> f, redis |-> r]

CatchNothing(res) == res
\* lines 173-175 and 322-324: except Exception: return None
CatchAll(res) == [res EXCEPT !.raised = FALSE]

\* get_token: the decrypted secret, or None; an expired record is deleted
GetToken(f, r, on, type, t, io) == CatchAll(GetTokenBody(f, r, on, type, t, io))

\* lines 296-320: the body of get_token_info
GetTokenInfoBody(f, r, on, type, t, io) ==
    LET found == LookupInfo(f, r, on, type, t, io)
        none == [some |-> FALSE, is_expired |-> FALSE, expires_in_seconds |-> 0]
    IN  IF on /\ io = "cache_down" THEN none @@ [raised |-> TRUE]
        ELSE IF ~found.found THEN none @@ [raised |-> FALSE]
        ELSE [some |-> TRUE,
              is_expired |-> t > found.data.expires_at,
              expires_in_seconds |-> IntSeconds(found.data.expires_at - t),
              raised |-> FALSE]

\* get_token_info: is_expired and expires_in_seconds of the record found
GetTokenInfo(f, r, on, type, t, io) == CatchAll(GetTokenInfoBody(f, r, on, type, t, io))

----------------------------------------------------------------------------
(* Exceptions, src/src/core/exceptions.py *)

ErrorParent ==
    [AuthenticationError |-> "Cafe24Error", TokenExpiredError |-> "AuthenticationError",
     APIError |-> "Cafe24Error", RateLimitError |-> "APIError",
     ValidationError |-> "Cafe24Error", NetworkError |-> "Cafe24Error",
     TimeoutError |-> "Exception", Cafe24Error |-> "Exception",
     TransportError |-> "Exception", ValueError |-> "Exception"]

\* isinstance(e, cls)
IsInstance(e, cls) ==
    \/ e = cls
    \/ e \in DOMAIN ErrorParent /\ ErrorParent[e] = cls
    \/ e \in DOMAIN ErrorParent /\ ErrorParent[e] \in DOMAIN ErrorParent
                                /\ ErrorParent[ErrorParent[e]] = cls

----------------------------------------------------------------------------
(* AuthManager *)

\* What the OAuth token endpoint answers: "ok" with the token JSON (an empty
\* string is a key the JSON lacks), "rejected" (raise_for_status fails), or
\* "error" (any other failure of the call).
TokenAnswer(kind, access_token, has_expires_in, expires_in, refresh_token) ==
    [kind |-> kind, access_token |-> access_token, has_expires_in |-> has_expires_in,
     expires_in |-> expires_in, refresh_token |-> refresh_token]

Returned(token, endpoint, st) ==
    [kind |-> "return", token |-> token, error |-> "", endpoint |-> endpoint,
     file |-> st.file, redis |-> st.redis]
Raised(error, endpoint, st) ==
    [kind |-> "raise", token |-> "", error |-> error, endpoint |-> endpoint,
     file |-> st.file, redis |-> st.redis]

SaveTokensAsNewSet(f, r, on, answer, t) ==
    LET a == SaveToken(f, r, on, "access", answer.access_token,
                       IF answer.has_expires_in THEN answer.expires_in
                                                ELSE DefaultExpiresIn, t, "ok")
    IN  IF answer.refresh_token # ""
        THEN SaveToken(a.file, a.redis, on, "refresh", answer.refresh_token,
                       RefreshLifetime, t, "ok")
        ELSE [file |-> MapDel(a.file, "refresh"), redis |-> MapDel(a.redis, "refresh")]
SaveTokensOneLifetime(f, r, on, answer, t) ==
    LET expires_in == IF answer.has_expires_in THEN answer.expires_in
                                               ELSE DefaultExpiresIn
        a == IF answer.access_token # ""
             THEN SaveToken(f, r, on, "access", answer.access_token, expires_in, t, "ok")
             ELSE [file |-> f, redis |-> r]
    IN  IF answer.refresh_token # ""
        THEN SaveToken(a.file, a.redis, on, "refresh", answer.refresh_token,
                       expires_in, t, "ok")
        ELSE a
\* _save_tokens
SaveTokens(f, r, on, answer, t) ==
    LET a == IF answer.access_token # ""
             THEN SaveToken(f, r, on, "access", answer.access_token,
                            IF answer.has_expires_in THEN answer.expires_in
                                                     ELSE DefaultExpiresIn, t, "ok")
             ELSE [file |-> f, redis |-> r]
    IN  IF answer.refresh_token # ""
        THEN SaveToken(a.file, a.redis, on, "refresh", answer.refresh_token,
                       RefreshLifetime, t, "ok")
        ELSE a

\* exchange_code_for_token
ExchangeCodeForToken(f, r, on, answer, t) ==
    IF answer.kind = "ok"
    THEN Returned(answer.access_token, TRUE, SaveTokens(f, r, on, answer, t))
    ELSE Raised("AuthenticationError", TRUE, [file |-> f, redis |-> r])

RefreshWithoutStoredToken(f, r, on, answer, t) ==
    IF answer.kind = "ok" /\ answer.access_token # ""
    THEN Returned(answer.access_token, TRUE, SaveTokens(f, r, on, answer, t))
    ELSE Raised("AuthenticationError", TRUE, [file |-> f, redis |-> r])
\* refresh_access_token, lines 141-159: from the answer of the token endpoint
\* on, over the stores as they are when the answer arrives
RefreshResponse(f, r, on, answer, t) ==
    IF answer.kind = "ok"
    THEN IF answer.access_token # ""
         THEN Returned(answer.access_token, TRUE, SaveTokens(f, r, on, answer, t))
         ELSE Raised("AuthenticationError", TRUE, SaveTokens(f, r, on, answer, t))
    ELSE IF answer.kind = "rejected"
    THEN Raised("TokenExpiredError", TRUE, ClearAll(f, r, on, "ok"))
    ELSE Raised("AuthenticationError", TRUE, [file |-> f, redis |-> r])

\* refresh_access_token, called when nothing else runs between its request
\* and the answer
RefreshAccessToken(f, r, on, answer, t) ==
    LET rt == GetToken(f, r, on, "refresh", t, "ok")
    IN  IF ~rt.some
        THEN Raised("TokenExpiredError", FALSE, rt)
        ELSE RefreshResponse(rt.file, rt.redis, on, answer, t)

FreshEnoughTwiceTheMargin(info) ==
    info.some /\ info.expires_in_seconds > 2 * SafetyMargin
\* get_valid_token, line 174: the cached token is good for more than the margin
FreshEnough(info) == info.some /\ info.expires_in_seconds > SafetyMargin

\* get_valid_token
GetValidToken(f, r, on, answer, t) ==
    LET at == GetToken(f, r, on, "access", t, "ok")
    IN  IF at.some
        THEN IF FreshEnough(GetTokenInfo(at.file, at.redis, on, "access", t, "ok"))
             THEN Returned(at.token, FALSE, at)
             ELSE RefreshAccessToken(at.file, at.redis, on, answer, t)
        ELSE Raised("AuthenticationError", FALSE, at)

\* is_authenticated
IsAuthenticated(f, r, on, t) == GetToken(f, r, on, "access", t, "ok")

----------------------------------------------------------------------------
(* Cafe24Client: one attempt of request *)

\* What the transport gives one attempt: a response (status, Retry-After
\* header, body that parses as JSON or not), or an exception of session.request
HttpAnswer(class, status, retry_after, json) ==
    [class |-> class, status |-> status, retry_after |-> retry_after, json |-> json]

\* What a frame of request does next: return a value, raise, call itself again
\* after a sleep, or (on the first 401) refresh the token
Return(value) ==
    [do |-> "return", value |-> value, error |-> "", status |-> 0, data |-> "",
     wait |-> 0, site |-> ""]
Raise(error, status, data) ==
    [do |-> "raise", value |-> "", error |-> error, status |-> status, data |-> data,
     wait |-> 0, site |-> ""]
Retry(wait, site) ==
    [do |-> "retry", value |-> "", error |-> "", status |-> 0, data |-> "",
     wait |-> wait, site |-> site]
Refresh ==
    [do |-> "refresh", value |-> "", error |-> "", status |-> 0, data |-> "",
     wait |-> 0, site |-> ""]

NextBudgetKept(retry_count) == retry_count

\* every recursive call passes retry_count - 1
NextBudget(retry_count) == retry_count - 1

RefreshAllowedWhileBudget(retry_count, maxr) == retry_count >= 0

\* line 168: the 401 handler refreshes on the attempt that has the full budget
RefreshAllowed(retry_count, maxr) == retry_count = maxr

RetryAfterIgnored(answer) == DefaultRetryAfter

\* line 183: int(response.headers.get('Retry-After', 60))
RetryAfter(answer) ==
    IF answer.retry_after = NoTime THEN DefaultRetryAfter ELSE answer.retry_after

\* line 207: (max_retries - retry_count + 1) * 2
BackoffWait(retry_count, maxr) == (maxr - retry_count + 1) * BackoffFactor

ExceptRetriesInsideTry(error, retry_count) ==
    IF IsInstance(error, "TimeoutError")
    THEN IF retry_count > 0 THEN Retry(0, "try")
                            ELSE Raise("NetworkError", 0, "")
    ELSE IF /\ retry_count > 0
            /\ ~IsInstance(error, "AuthenticationError")
            /\ ~IsInstance(error, "ValidationError")
         THEN Retry(ErrorPause, "try")
         ELSE Raise("NetworkError", 0, "")

\* lines 216-234: the except clauses of the try around the attempt
Except(error, retry_count) ==
    IF IsInstance(error, "TimeoutError")
    THEN IF retry_count > 0 THEN Retry(0, "handler")
                            ELSE Raise("NetworkError", 0, "")
    ELSE IF /\ retry_count > 0
            /\ ~IsInstance(error, "AuthenticationError")
            /\ ~IsInstance(error, "ValidationError")
         THEN Retry(ErrorPause, "handler")
         ELSE Raise("NetworkError", 0, "")

\* lines 193-202: the error body parsed, or wrapped when it is not JSON
ErrorData(answer) == IF answer.json THEN "json" ELSE "text"

\* lines 140-214: the try body, up to what leaves it
TryBody(answer, retry_count, maxr) ==
    IF answer.class = "timeout" THEN Raise("TimeoutError", 0, "")
    ELSE IF answer.class = "transport" THEN Raise("TransportError", 0, "")
    ELSE IF answer.status \in {200, 201}
    THEN Return(IF answer.json THEN "json" ELSE "envelope")
    ELSE IF answer.status = 204 THEN Return("no_content")
    ELSE IF answer.status = 401
    THEN IF RefreshAllowed(retry_count, maxr) THEN Refresh
         ELSE Raise("AuthenticationError", 0, "")
    ELSE IF answer.status = 429
    THEN IF answer.class = "bad_retry_after" THEN Raise("ValueError", 0, "")
         ELSE IF retry_count > 0 THEN Retry(RetryAfter(answer), "try")
         ELSE Raise("RateLimitError", 0, "")
    ELSE IF 400 <= answer.status /\ answer.status < 500
    THEN Raise("APIError", answer.status, ErrorData(answer))
    ELSE IF 500 <= answer.status /\ answer.status < 600
    THEN IF retry_count > 0 THEN Retry(BackoffWait(retry_count, maxr), "try")
         ELSE Raise("APIError", answer.status, "")
    ELSE Return("None")

\* the attempt as the frame sees it: what leaves the try statement
Attempt(answer, retry_count, maxr) ==
    LET d == TryBody(answer, retry_count, maxr)
    IN  IF d.do = "raise" THEN Except(d.error, retry_count) ELSE d

\* lines 170-177 with 225-234: the recursive call of the 401 handler raised, or
\* the refresh did: AuthenticationError inside the try of the same frame
AfterRefreshFailure(retry_count) == Except("AuthenticationError", retry_count)

\* a recursive call made inside the try body raised `error`
AfterChildRaise(site, error, retry_count) ==
    IF site = "try401" THEN AfterRefreshFailure(retry_count)
                       ELSE Except(error, retry_count)

\* _handle_rate_limit
WindowOver(reset, t) == reset = NoTime \/ t - reset >= Seconds(WindowSeconds)
ThrottleWaitWholeWindow(reset, count, t) ==
    LET count1 == IF WindowOver(reset, t) THEN 0 ELSE count
    IN  IF count1 >= ThrottleCeiling THEN Seconds(WindowSeconds) ELSE 0
ThrottleWaitNever(reset, count, t) == 0
\* lines 77-79: how long the caller sleeps, 0 when it does not
ThrottleWait(reset, count, t) ==
    LET reset1 == IF WindowOver(reset, t) THEN t ELSE reset
        count1 == IF WindowOver(reset, t) THEN 0 ELSE count
        wait   == Seconds(WindowSeconds) - (t - reset1)
    IN  IF count1 >= ThrottleCeiling /\ wait > 0 THEN wait ELSE 0
\* lines 82-85: what a caller writes when its sleep is over, at time t
AfterSleep(t) == [reset |-> t, count |-> 0 + 1]
HandleRateLimit(reset, count, t) ==
    LET reset1 == IF WindowOver(reset, t) THEN t ELSE reset
        count1 == IF WindowOver(reset, t) THEN 0 ELSE count
        wait   == ThrottleWait(reset, count, t)
    IN  IF wait > 0
        THEN [reset |-> t + wait, count |-> 1, now |-> t + wait]
        ELSE [reset |-> reset1, count |-> count1 + 1, now |-> t]

----------------------------------------------------------------------------
(* Inputs *)

\* answers of the OAuth token endpoint
OkAnswer(access_token, has_expires_in, expires_in, refresh_token) ==
    TokenAnswer("ok", access_token, has_expires_in, expires_in, refresh_token)
Rejected == TokenAnswer("rejected", "", FALSE, 0, "")
Failed == TokenAnswer("error", "", FALSE, 0, "")

AuthAnswers ==
    {OkAnswer("tok1", TRUE, 7200, "ref1"), OkAnswer("tok2", TRUE, 301, ""),
     OkAnswer("tok2", FALSE, 0, "ref2"), OkAnswer("", FALSE, 0, ""),
     Rejected, Failed}

PipelineAuthAnswers == {OkAnswer("tok2", TRUE, 7200, ""), Rejected, Failed}

\* answers of the admin API to one attempt
HttpAnswers ==
    {HttpAnswer("status", 200, NoTime, TRUE), HttpAnswer("status", 200, NoTime, FALSE),
     HttpAnswer("status", 204, NoTime, FALSE), HttpAnswer("status", 202, NoTime, TRUE),
     HttpAnswer("status", 401, NoTime, TRUE),
     HttpAnswer("status", 429, NoTime, TRUE), HttpAnswer("status", 429, 5, TRUE),
     HttpAnswer("bad_retry_after", 429, NoTime, TRUE),
     HttpAnswer("status", 404, NoTime, TRUE), HttpAnswer("status", 500, NoTime, TRUE),
     HttpAnswer("timeout", 0, NoTime, FALSE), HttpAnswer("transport", 0, NoTime, FALSE)}

AnswerClass(answer) ==
    IF answer.class \in {"timeout", "transport"} THEN answer.class
    ELSE IF answer.status \in {200, 201, 204} THEN "success"
    ELSE IF answer.status = 401 THEN "401"
    ELSE IF answer.status = 429 THEN "429"
    ELSE IF 400 <= answer.status /\ answer.status < 500 THEN "client_error"
    ELSE IF 500 <= answer.status /\ answer.status < 600 THEN "server_error"
    ELSE "other"

\* token files a starting process may find, written by an earlier run
Record(token, expires_in) ==
    [token |-> Encrypt(token), expires_at |-> Seconds(expires_in)]
InitLifetimes == {301, 7200}
InitFiles ==
    {EmptyMap}
    \cup {("access" :> Record("tok1", e)) @@ ("refresh" :> Record("ref1", RefreshLifetime)) :
             e \in InitLifetimes}
    \cup {("access" :> Record("tok1", e)) : e \in {301}}
    \cup {("refresh" :> Record("ref1", RefreshLifetime))}

\* the cache holding what the file holds
Mirror(f) == [t \in DOMAIN f |-> [data |-> f[t], deadline |-> f[t].expires_at]]

----------------------------------------------------------------------------
(* State *)

NoObs ==
    [op |-> "none", kind |-> "", token |-> "", error |-> "", endpoint |-> FALSE,
     answer |-> Failed, hadAccess |-> FALSE, stored |-> "", remaining |-> 0,
     hadRefresh |-> FALSE]
NoOutcome == [kind |-> "none", value |-> "", error |-> "", status |-> 0, data |-> ""]
NoEvent ==
    [class |-> "none", kind |-> "", status |-> 0, retry_after |-> NoTime,
     json |-> FALSE, retry_count |-> 0, first |-> FALSE]

Outcome(d) ==
    [kind |-> d.do, value |-> d.value, error |-> d.error, status |-> d.status,
     data |-> d.data]

Frame(retry_count, site) == [retry_count |-> retry_count, site |-> site]
Top == stack[Len(stack)]

\* coroutines sharing the client; none is inside _handle_rate_limit
Callers == 1..MaxCallers
NoSleepers == [c \in Callers |-> NoTime]

\* no TokenManager call made yet, and no save_token in force
NoTobs == [op |-> "none"]
NoSave == [valid |-> FALSE, token |-> "", at |-> 0, expires_at |-> 0]
NoSaved == [type \in TokenTypes |-> NoSave]

\* no Settings made, and a client that has opened no transport (client.py:36)
NoSettings == [phase |-> "none"]
NoSession ==
    [cache |-> 0, made |-> 0, open |-> {}, closed |-> <<>>,
     closing |-> [c \in Callers |-> 0], op |-> "none", got |-> 0]

\* no refresh request awaits its answer, and no refresh has succeeded
NoGrant == [valid |-> FALSE, token |-> "", expires_at |-> 0]
NoFlight ==
    [sent |-> [c \in Callers |-> ""], overtaken |-> [c \in Callers |-> FALSE],
     granted |-> NoGrant]

InitAux ==
    /\ sleepers = NoSleepers
    /\ passed = 0
    /\ tobs = NoTobs
    /\ saved = NoSaved
    /\ settings = NoSettings
    /\ session = NoSession
    /\ flight = NoFlight

InitStore ==
    /\ now = 0
    /\ redisOn \in BOOLEAN
    /\ file \in InitFiles
    /\ redis \in IF redisOn THEN {Mirror(file), EmptyMap} ELSE {EmptyMap}
    /\ obs = NoObs
    /\ nAdv = 0

\* Cafe24Client.__init__, and a client that has already counted requests
InitClient ==
    /\ max_retries \in 0..MaxRetries
    /\ stack = <<>>
    /\ pc = "idle"
    /\ outcome = NoOutcome
    /\ attempts = 0
    /\ refreshes = 0
    /\ only = "none"
    /\ budget = 0
    /\ lastEvent = NoEvent
    /\ \E w \in {<<0, NoTime>>, <<ThrottleCeiling - 1, 0>>} :
           /\ requests_this_minute = w[1]
           /\ rate_limit_reset = w[2]


----------------------------------------------------------------------------
(* Cafe24Client.request: one outer call, frame by frame *)

\* the frame on top of `base` goes on as `d` says
Continue(base, frame, d) ==
    IF d.do = "retry"
    THEN /\ stack' = Append(Append(base, frame),
                            Frame(NextBudget(frame.retry_count), d.site))
         /\ now' = now + Seconds(d.wait)
         /\ pc' = "throttle"
         /\ outcome' = NoOutcome
    ELSE /\ stack' = Append(base, frame)
         /\ now' = now
         /\ pc' = "unwind"
         /\ outcome' = Outcome(d)

\* the outer call: retry_count is given, or None and then settings.max_retries
RequestCall(retry_count) ==
    /\ pc = "idle"
    /\ stack' = <<Frame(retry_count, "outer")>>
    /\ budget' = retry_count
    /\ pc' = "throttle"
    /\ UNCHANGED <<now, file, redis, redisOn, obs, nAdv, max_retries, outcome,
                   attempts, refreshes, only, lastEvent, requests_this_minute,
                   rate_limit_reset>>
    /\ UNCHANGED auxVars

\* line 114: await self._handle_rate_limit()
Throttle ==
    /\ pc = "throttle"
    /\ LET h == HandleRateLimit(rate_limit_reset, requests_this_minute, now)
       IN  /\ now' = h.now
           /\ rate_limit_reset' = h.reset
           /\ requests_this_minute' = h.count
    /\ pc' = "auth"
    /\ UNCHANGED <<file, redis, redisOn, obs, nAdv, max_retries, stack, outcome,
                   attempts, refreshes, only, budget, lastEvent>>
    /\ UNCHANGED auxVars

\* lines 122-127: get_async_auth_headers, outside the try
ResolveAuth(tokenAnswer) ==
    /\ pc = "auth"
    /\ LET res == GetValidToken(file, redis, redisOn, tokenAnswer, now)
       IN  /\ file' = res.file
           /\ redis' = res.redis
           /\ IF res.kind = "return"
              THEN /\ pc' = "send"
                   /\ UNCHANGED <<outcome, lastEvent>>
              ELSE /\ pc' = "unwind"
                   /\ outcome' = Outcome(Raise(res.error, 0, ""))
                   /\ lastEvent' = [class |-> "auth_failure", kind |-> "auth",
                                    status |-> 0, retry_after |-> NoTime,
                                    json |-> FALSE,
                                    retry_count |-> Top.retry_count,
                                    first |-> Len(stack) = 1]
    /\ UNCHANGED <<now, redisOn, obs, nAdv, max_retries, stack, attempts,
                   refreshes, only, budget, requests_this_minute, rate_limit_reset>>
    /\ UNCHANGED auxVars

\* lines 140-234: the HTTP attempt and what the frame does with its answer
Send(answer, tokenAnswer) ==
    /\ pc = "send"
    /\ attempts' = attempts + 1
    /\ only' = IF only \in {"none", AnswerClass(answer)} THEN AnswerClass(answer)
                                                          ELSE "mixed"
    /\ lastEvent' = [class |-> AnswerClass(answer), kind |-> answer.class,
                     status |-> answer.status, retry_after |-> answer.retry_after,
                     json |-> answer.json, retry_count |-> Top.retry_count,
                     first |-> Len(stack) = 1]
    /\ LET base == SubSeq(stack, 1, Len(stack) - 1)
           d == Attempt(answer, Top.retry_count, max_retries)
           r == RefreshAccessToken(file, redis, redisOn, tokenAnswer, now)
       IN  IF d.do = "refresh"
           THEN /\ refreshes' = refreshes + 1
                /\ file' = r.file
                /\ redis' = r.redis
                /\ IF r.kind = "return"
                   THEN Continue(base, Top, Retry(0, "try401"))
                   ELSE Continue(base, Top, AfterRefreshFailure(Top.retry_count))
           ELSE /\ Continue(base, Top, d)
                /\ UNCHANGED <<refreshes, file, redis>>
    /\ UNCHANGED <<redisOn, obs, nAdv, max_retries, budget, requests_this_minute,
                   rate_limit_reset>>
    /\ UNCHANGED auxVars

\* a recursive call came back to the frame that made it
Unwind ==
    /\ pc = "unwind"
    /\ Len(stack) > 1
    /\ LET child == Top
           parent == stack[Len(stack) - 1]
           base == SubSeq(stack, 1, Len(stack) - 2)
       IN  IF child.site = "handler" \/ outcome.kind = "return"
           THEN /\ stack' = Append(base, parent)
                /\ UNCHANGED <<now, pc, outcome>>
           ELSE Continue(base, parent,
                         AfterChildRaise(child.site, outcome.error, parent.retry_count))
    /\ UNCHANGED <<file, redis, redisOn, obs, nAdv, max_retries, attempts,
                   refreshes, only, budget, lastEvent, requests_this_minute,
                   rate_limit_reset>>
    /\ UNCHANGED auxVars

\* the outer frame hands its result to the caller
Finish ==
    /\ pc = "unwind"
    /\ Len(stack) = 1
    /\ pc' = "done"
    /\ UNCHANGED <<now, file, redis, redisOn, obs, nAdv, max_retries, stack, outcome,
                   attempts, refreshes, only, budget, lastEvent,
                   requests_this_minute, rate_limit_reset>>
    /\ UNCHANGED auxVars

\* the pipeline runs without the external cache, as it does when REDIS_URL is
\* not set (token_manager.py, lines 59-62)
InitRequest ==
    /\ InitStore
    /\ InitClient
    /\ InitAux
    /\ ~redisOn

NextRequest ==
    \/ \E retry_count \in 0..MaxRetries : RequestCall(retry_count)
    \/ Throttle
    \/ \E tokenAnswer \in PipelineAuthAnswers : ResolveAuth(tokenAnswer)
    \/ \E answer \in HttpAnswers, tokenAnswer \in PipelineAuthAnswers :
           Send(answer, tokenAnswer)
    \/ Unwind
    \/ Finish

SpecRequest == InitRequest /\ [][NextRequest]_vars

\* the event loop runs every coroutine that can run
LiveRequest == SpecRequest /\ WF_vars(NextRequest)

----------------------------------------------------------------------------
(* AuthManager called by the web routes, with the clock moving between calls *)

\* what get_token would find for `type`: a record that has not expired
Stored(f, r, on, type, t) ==
    LET x == LookupToken(f, r, on, type, t, "ok")
    IN  [has |-> x.found /\ t <= x.data.expires_at,
         token |-> Decrypt(x.data.token),
         remaining |-> x.data.expires_at - t]

Observe(op, res, answer) ==
    [op |-> op, kind |-> res.kind, token |-> res.token, error |-> res.error,
     endpoint |-> res.endpoint, answer |-> answer,
     hadAccess |-> Stored(file, redis, redisOn, "access", now).has,
     stored |-> Stored(file, redis, redisOn, "access", now).token,
     remaining |-> Stored(file, redis, redisOn, "access", now).remaining,
     hadRefresh |-> Stored(file, redis, redisOn, "refresh", now).has]

AuthCall(op, res, answer) ==
    /\ file' = res.file
    /\ redis' = res.redis
    /\ obs' = Observe(op, res, answer)
    /\ UNCHANGED <<now, redisOn, nAdv, max_retries, stack, pc, outcome, attempts,
                   refreshes, only, budget, lastEvent, requests_this_minute,
                   rate_limit_reset>>
    /\ UNCHANGED auxVars

CallExchange(answer) ==
    AuthCall("exchange_code_for_token",
             ExchangeCodeForToken(file, redis, redisOn, answer, now), answer)

CallGetValidToken(answer) ==
    AuthCall("get_valid_token", GetValidToken(file, redis, redisOn, answer, now), answer)

CallRefresh(answer) ==
    AuthCall("refresh_access_token",
             RefreshAccessToken(file, redis, redisOn, answer, now), answer)

CallLogoutKeepsTokens ==
    AuthCall("logout", Returned("", FALSE, [file |-> file, redis |-> redis]), Failed)
\* logout
CallLogout ==
    AuthCall("logout", Returned("", FALSE, ClearAll(file, redis, redisOn, "ok")), Failed)

CallIsAuthenticated ==
    LET at == IsAuthenticated(file, redis, redisOn, now)
    IN  AuthCall("is_authenticated",
                 Returned(IF at.some THEN "True" ELSE "False", FALSE, at), Failed)

\* wall time passes between two calls
AdvanceSteps == {1, Seconds(101), Seconds(7000)}
Advance(d) ==
    /\ nAdv < MaxAdvances
    /\ nAdv' = nAdv + 1
    /\ now' = now + d
    /\ UNCHANGED <<file, redis, redisOn, obs, max_retries, stack, pc, outcome,
                   attempts, refreshes, only, budget, lastEvent,
                   requests_this_minute, rate_limit_reset>>
    /\ UNCHANGED auxVars

InitAuth ==
    /\ InitStore
    /\ InitAux
    /\ max_retries = MaxRetries
    /\ stack = <<>>
    /\ pc = "idle"
    /\ outcome = NoOutcome
    /\ attempts = 0
    /\ refreshes = 0
    /\ only = "none"
    /\ budget = 0
    /\ lastEvent = NoEvent
    /\ requests_this_minute = 0
    /\ rate_limit_reset = NoTime

NextAuth ==
    \/ \E answer \in AuthAnswers : CallExchange(answer)
    \/ \E answer \in AuthAnswers : CallGetValidToken(answer)
    \/ \E answer \in AuthAnswers : CallRefresh(answer)
    \/ CallLogout
    \/ CallIsAuthenticated
    \/ \E d \in AdvanceSteps : Advance(d)

SpecAuth == InitAuth /\ [][NextAuth]_vars

\* The happy path: a process that starts with no token, exchanges a code for
\* the token response below and then asks for the token, at instants on both
\* sides of the safety margin and of the expiry.
HappyAnswer == OkAnswer("tok1", TRUE, 7200, "ref1")
HappySteps == {1, Seconds(300), Seconds(6899)}

InitHappy ==
    /\ InitAuth
    /\ file = EmptyMap
    /\ redis = EmptyMap

NextHappy ==
    \/ CallExchange(HappyAnswer)
    \/ \E answer \in AuthAnswers : CallGetValidToken(answer)
    \/ CallIsAuthenticated
    \/ \E d \in HappySteps : Advance(d)

SpecHappy == InitHappy /\ [][NextHappy]_vars

----------------------------------------------------------------------------
(* Cafe24Client._handle_rate_limit, entered by coroutines that share the    *)
(* client. A coroutine runs without interruption up to its await, so the    *)
(* method is two steps: up to asyncio.sleep (line 81), and what follows it. *)

\* the count of attempts let through, kept beside the counter of the client
Passed(reset1, reset, n) == IF reset1 # reset THEN 1 ELSE n + 1

\* lines 68-81 and, when there is nothing to wait for, line 85
EnterThrottle(c) ==
    /\ sleepers[c] = NoTime
    /\ LET over == WindowOver(rate_limit_reset, now)
           reset1 == IF over THEN now ELSE rate_limit_reset
           count1 == IF over THEN 0 ELSE requests_this_minute
           wait == ThrottleWait(rate_limit_reset, requests_this_minute, now)
       IN  /\ rate_limit_reset' = reset1
           /\ IF wait > 0
              THEN /\ sleepers' = [sleepers EXCEPT ![c] = now + wait]
                   /\ requests_this_minute' = count1
                   /\ passed' = passed
              ELSE /\ sleepers' = sleepers
                   /\ requests_this_minute' = count1 + 1
                   /\ passed' = Passed(reset1, rate_limit_reset, passed)
    /\ UNCHANGED <<now, file, redis, redisOn, obs, nAdv, max_retries, stack, pc,
                   outcome, attempts, refreshes, only, budget, lastEvent, tobs,
                   saved>>
    /\ UNCHANGED bootVars

\* lines 82-85: the sleep is over
WakeThrottle(c) ==
    /\ sleepers[c] # NoTime
    /\ now >= sleepers[c]
    /\ sleepers' = [sleepers EXCEPT ![c] = NoTime]
    /\ rate_limit_reset' = AfterSleep(now).reset
    /\ requests_this_minute' = AfterSleep(now).count
    /\ passed' = Passed(AfterSleep(now).reset, rate_limit_reset, passed)
    /\ UNCHANGED <<now, file, redis, redisOn, obs, nAdv, max_retries, stack, pc,
                   outcome, attempts, refreshes, only, budget, lastEvent, tobs,
                   saved>>
    /\ UNCHANGED bootVars

\* wall time passes: by a step, or up to the end of a sleep
ThrottleSteps == {Seconds(1), Seconds(WindowSeconds)}
SleepRemainders == {sleepers[c] - now : c \in {x \in Callers : sleepers[x] > now}}
PassTime(d) ==
    /\ nAdv < MaxAdvances
    /\ nAdv' = nAdv + 1
    /\ now' = now + d
    /\ UNCHANGED <<file, redis, redisOn, obs, max_retries, stack, pc, outcome,
                   attempts, refreshes, only, budget, lastEvent,
                   requests_this_minute, rate_limit_reset, sleepers, passed, tobs,
                   saved>>
    /\ UNCHANGED bootVars

\* Cafe24Client.__init__ (lines 36-38) beside an empty token store
InitThrottle ==
    /\ now = 0
    /\ redisOn = FALSE
    /\ file = EmptyMap
    /\ redis = EmptyMap
    /\ obs = NoObs
    /\ nAdv = 0
    /\ max_retries = MaxRetries
    /\ stack = <<>>
    /\ pc = "idle"
    /\ outcome = NoOutcome
    /\ attempts = 0
    /\ refreshes = 0
    /\ only = "none"
    /\ budget = 0
    /\ lastEvent = NoEvent
    /\ requests_this_minute = 0
    /\ rate_limit_reset = NoTime
    /\ InitAux

NextThrottle ==
    \/ \E c \in Callers : EnterThrottle(c)
    \/ \E c \in Callers : WakeThrottle(c)
    \/ \E d \in ThrottleSteps \cup SleepRemainders : PassTime(d)

SpecThrottle == InitThrottle /\ [][NextThrottle]_vars

\* one caller, each request awaited before the next is made
NextThrottleOne ==
    \/ EnterThrottle(1)
    \/ WakeThrottle(1)
    \/ \E d \in ThrottleSteps \cup SleepRemainders : PassTime(d)

SpecThrottleOne == InitThrottle /\ [][NextThrottleOne]_vars

----------------------------------------------------------------------------
(* TokenManager called directly: save_token, get_token, get_token_info,     *)
(* delete_token and clear_all, with the clock moving between the calls, the *)
(* storage failing during some of them, and stores left by an earlier       *)
(* process.                                                                 *)

\* the secrets saved, by token type
StoreTokens == [access |-> {"s2"}, refresh |-> {"s3"}]
StoreLifetimes == {0, 1}
StoreSteps == {1, Seconds(1)}

\* a record written by an earlier process under its own key
OldRecord(token, expires_in) ==
    [token |-> EncryptWith(OldKey, token), expires_at |-> Seconds(expires_in)]
StoreInitFiles ==
    {EmptyMap,
     "access" :> Record("s1", 1),
     ("access" :> OldRecord("s1", 1)) @@ ("refresh" :> OldRecord("s2", 1))}

\* _load_all_tokens met a file it could not open or decrypt
LoadFails(f, io) ==
    f # EmptyMap /\ (io = "disk_down" \/ \E type \in DOMAIN f : ~Decryptable(f[type].token))

\* a decryption or I/O failure happens during get_token
GetTokenFault(f, r, on, type, t, io) ==
    LET found == LookupToken(f, r, on, type, t, io)
    IN  \/ on /\ io = "cache_down"
        \/ ~(on /\ RedisGet(r, type, t).found) /\ LoadFails(f, io)
        \/ found.found /\ t <= found.data.expires_at /\ ~Decryptable(found.data.token)

\* a decryption or I/O failure happens during get_token_info
GetTokenInfoFault(f, r, on, type, t, io) ==
    \/ on /\ io = "cache_down"
    \/ ~on /\ LoadFails(f, io)

\* the record get_token's lookup finds has passed its expires_at
FoundExpired(f, r, on, type, t, io) ==
    LET found == LookupToken(f, r, on, type, t, io)
    IN  ~(on /\ io = "cache_down") /\ found.found /\ t > found.data.expires_at

TmObserve(op, type, io, res, fault) ==
    [op |-> op, type |-> type, io |-> io, some |-> res.some,
     token |-> res.token, is_expired |-> res.is_expired, raised |-> res.raised,
     fault |-> fault, was |-> saved[type],
     expired |-> FoundExpired(file, redis, redisOn, type, now, io)]

\* a call that writes returns a success flag and nothing else
Written == [op |-> "write"]

\* a call that changes the stores, or reads them, and what is seen of it
TmCall(observed, stores) ==
    /\ file' = stores.file
    /\ redis' = stores.redis
    /\ tobs' = observed
    /\ UNCHANGED <<now, redisOn, obs, nAdv, max_retries, stack, pc, outcome,
                   attempts, refreshes, only, budget, lastEvent,
                   requests_this_minute, rate_limit_reset, sleepers, passed>>
    /\ UNCHANGED bootVars

TmSave(type, token, expires_in, io) ==
    LET res == SaveToken(file, redis, redisOn, type, token, expires_in, now, io)
    IN  /\ TmCall(Written, res)
        /\ saved' = [saved EXCEPT ![type] =
                        IF res.ok /\ io = "ok"
                        THEN [valid |-> TRUE, token |-> token, at |-> now,
                              expires_at |-> now + Seconds(expires_in)]
                        ELSE NoSave]

TmGet(type, io) ==
    LET res == GetToken(file, redis, redisOn, type, now, io)
    IN  /\ TmCall(TmObserve("get_token", type, io, res @@ [is_expired |-> FALSE],
                            GetTokenFault(file, redis, redisOn, type, now, io)),
                  res)
        /\ saved' = IF res.file = file /\ res.redis = redis
                    THEN saved ELSE [saved EXCEPT ![type] = NoSave]

TmInfo(type, io) ==
    LET res == GetTokenInfo(file, redis, redisOn, type, now, io)
    IN  /\ TmCall(TmObserve("get_token_info", type, io, res @@ [token |-> ""],
                            GetTokenInfoFault(file, redis, redisOn, type, now, io)),
                  [file |-> file, redis |-> redis])
        /\ saved' = saved

TmDelete(type, io) ==
    /\ TmCall(Written, DeleteToken(file, redis, redisOn, type, io))
    /\ saved' = [saved EXCEPT ![type] = NoSave]

TmClear(io) ==
    /\ TmCall(Written, ClearAll(file, redis, redisOn, io))
    /\ saved' = NoSaved

\* wall time passes between two calls; what the last call returned is consumed
StoreTick(d) ==
    /\ nAdv < MaxAdvances
    /\ nAdv' = nAdv + 1
    /\ now' = now + d
    /\ tobs' = NoTobs
    /\ UNCHANGED <<file, redis, redisOn, obs, max_retries, stack, pc, outcome,
                   attempts, refreshes, only, budget, lastEvent,
                   requests_this_minute, rate_limit_reset, sleepers, passed, saved>>
    /\ UNCHANGED bootVars

\* TokenManager.__init__ over what an earlier process left: the cache, when
\* one is configured, holds what the file holds
InitTokenStore ==
    /\ now = 0
    /\ redisOn \in BOOLEAN
    /\ file \in StoreInitFiles
    /\ redis = IF redisOn THEN Mirror(file) ELSE EmptyMap
    /\ obs = NoObs
    /\ nAdv = 0
    /\ max_retries = MaxRetries
    /\ stack = <<>>
    /\ pc = "idle"
    /\ outcome = NoOutcome
    /\ attempts = 0
    /\ refreshes = 0
    /\ only = "none"
    /\ budget = 0
    /\ lastEvent = NoEvent
    /\ requests_this_minute = 0
    /\ rate_limit_reset = NoTime
    /\ InitAux

NextTokenStore ==
    \/ \E type \in TokenTypes, expires_in \in StoreLifetimes, io \in IoModes :
           \E token \in StoreTokens[type] : TmSave(type, token, expires_in, io)
    \/ \E type \in TokenTypes, io \in IoModes : TmGet(type, io)
    \/ \E type \in TokenTypes, io \in IoModes : TmInfo(type, io)
    \/ \E type \in TokenTypes, io \in IoModes : TmDelete(type, io)
    \/ \E io \in IoModes : TmClear(io)
    \/ \E d \in StoreSteps : StoreTick(d)

SpecTokenStore == InitTokenStore /\ [][NextTokenStore]_vars

----------------------------------------------------------------------------
(* Claims about Cafe24Client.request, under SpecRequest *)

Ended == pc \in {"unwind", "done"}

\* C1: a 4xx answer other than 401 and 429 ends the outer call at once, with no
\* further attempt, and the caller gets an APIError carrying the status code
\* and the parsed error body.
C1_ClientErrorEndsCall ==
    lastEvent.class = "client_error" =>
        /\ Ended
        /\ pc = "done" => /\ outcome.kind = "raise"
                          /\ outcome.error = "APIError"
                          /\ outcome.status = lastEvent.status
                          /\ outcome.data = "json"

\* C2: a call whose every attempt is answered 500, started with budget N, makes
\* exactly N+1 attempts and then fails with an APIError.
C2_ServerErrorAttempts ==
    (pc = "done" /\ only = "server_error") =>
        /\ attempts = budget + 1
        /\ outcome.kind = "raise"
        /\ outcome.error = "APIError"

\* C3: in a call started with the default budget, a 401 on an attempt that is not
\* the first fails the call at once, and the caller gets an AuthenticationError.
C3_Late401IsAuthenticationError ==
    (budget = max_retries /\ lastEvent.class = "401" /\ ~lastEvent.first) =>
        /\ Ended
        /\ pc = "done" => /\ outcome.kind = "raise"
                          /\ outcome.error = "AuthenticationError"

\* C4: in an outer call started with the default budget the 401 handler calls
\* refresh_access_token at most once, and exactly once when the first two
\* attempts are both answered 401.
C4_SingleRefreshOn401 ==
    budget = max_retries =>
        /\ refreshes <= 1
        /\ (only = "401" /\ attempts >= 2) => refreshes = 1

C4_Witness ==
    /\ pc = "done"
    /\ budget = max_retries
    /\ only = "401"
    /\ attempts = 2
    /\ refreshes = 1

\* C7: every call to request ends, and every recursive call is made with a budget
\* strictly below that of the frame that makes it.
BudgetsDecrease ==
    \A i \in 2..Len(stack) : stack[i].retry_count < stack[i - 1].retry_count

C7_RequestTerminates ==
    /\ [](pc # "idle" => <>(pc = "done"))
    /\ []BudgetsDecrease

C7_Witness ==
    /\ pc = "done"
    /\ budget = MaxRetries
    /\ attempts > budget + 1

\* C8: an AuthenticationError of get_async_auth_headers, on the first attempt or
\* on a retry, ends the call with no further attempt and reaches the caller as
\* an AuthenticationError.
C8_AuthFailurePropagates ==
    lastEvent.class = "auth_failure" =>
        /\ Ended
        /\ pc = "done" => /\ outcome.kind = "raise"
                          /\ IsInstance(outcome.error, "AuthenticationError")

\* C9: after a 429 with budget left, the next attempt has the budget less one and
\* starts after a wait of exactly Retry-After seconds, 60 when the header is
\* absent.
C9_RetryAfterHonoured ==
    [][(/\ pc = "send"
        /\ lastEvent'.class = "429"
        /\ lastEvent'.kind = "status"
        /\ lastEvent'.retry_count > 0)
       => /\ pc' = "throttle"
          /\ Len(stack') = Len(stack) + 1
          /\ stack'[Len(stack')].retry_count = stack[Len(stack)].retry_count - 1
          /\ now' - now = Seconds(IF lastEvent'.retry_after = NoTime
                                  THEN 60 ELSE lastEvent'.retry_after)]_vars

C9_Witness ==
    /\ pc = "throttle"
    /\ lastEvent.class = "429"
    /\ lastEvent.retry_after = 5
    /\ Len(stack) = 2
    /\ stack[2].retry_count = stack[1].retry_count - 1
    /\ now = Seconds(5)

\* C10: a call still answered 429 when its budget is exhausted fails with a
\* RateLimitError, and the caller gets a RateLimitError.
C10_ExhaustedRateLimit ==
    (/\ pc = "done"
     /\ lastEvent.class = "429"
     /\ lastEvent.kind = "status"
     /\ lastEvent.retry_count <= 0)
    => /\ outcome.kind = "raise"
       /\ outcome.error = "RateLimitError"

\* C11: a call whose every attempt ends in a transport timeout (an
\* asyncio.TimeoutError, or a timeout of the HTTP library, which is a transport
\* error) retries with the budget less one each time, makes exactly N+1 attempts
\* for initial budget N, and then fails with NetworkError. (A call that a
\* failing get_async_auth_headers ends before an attempt is not such a call.)
TimeoutClasses == {"timeout", "transport"}

C11_TimeoutAttempts ==
    (only \in TimeoutClasses /\ lastEvent.class \in TimeoutClasses) =>
        /\ \A i \in 2..Len(stack) :
               stack[i].retry_count = stack[i - 1].retry_count - 1
        /\ attempts <= budget + 1
        /\ pc = "done" => /\ attempts = budget + 1
                          /\ outcome.kind = "raise"
                          /\ outcome.error = "NetworkError"

C11_Witness ==
    /\ pc = "done"
    /\ only = "timeout"
    /\ budget = MaxRetries
    /\ attempts = budget + 1
    /\ outcome.error = "NetworkError"

----------------------------------------------------------------------------
(* Claims about Cafe24Client._handle_rate_limit *)

\* C12: for a single caller, once 95 attempts have passed _handle_rate_limit
\* within one 60-second window, the 96th attempt does not pass but sleeps to
\* the end of that window, and when it wakes a new window starts there with
\* the counter reset to 0, 1 once the 96th attempt is counted.
C12_SingleCallerThrottle ==
    [][/\ (/\ now' = now
           /\ sleepers[1] = NoTime
           /\ passed = 95
           /\ ~WindowOver(rate_limit_reset, now))
          => /\ sleepers'[1] = rate_limit_reset + Seconds(60)
             /\ sleepers'[1] > now
             /\ passed' = passed
       /\ (sleepers[1] # NoTime /\ sleepers'[1] = NoTime)
          => /\ now >= sleepers[1]
             /\ rate_limit_reset' = now
             /\ requests_this_minute' = 1
             /\ passed' = 1]_vars

\* the 96th attempt came one second into the window, slept 59 and was counted
C12_Witness ==
    /\ now = Seconds(60)
    /\ nAdv = 2
    /\ sleepers[1] = NoTime
    /\ rate_limit_reset = now
    /\ requests_this_minute = 1
    /\ passed = 1

\* C13: with several callers sharing the client no attempt let through is lost
\* from the count: at most 95 attempts pass _handle_rate_limit in the 60
\* seconds that follow any value taken by the window start.
C13_NoAttemptLost == passed <= 95

\* C30: in every reachable state of a client, whatever the interleaving of
\* the callers that share it, _requests_this_minute is at most 95, the ceiling
\* of 100 less the buffer of 5.
C30_CounterWithinCeiling == requests_this_minute <= 95

\* the counter stands at the ceiling after two callers slept through the end
\* of a window together, and one more caller is being held back
C30_Witness ==
    /\ requests_this_minute = 95
    /\ passed > 95
    /\ \E c \in Callers : sleepers[c] > now

----------------------------------------------------------------------------
(* Claims about AuthManager.get_valid_token, under SpecAuth *)

\* C5: whenever a valid refresh token is stored and the token endpoint accepts
\* it, get_valid_token returns an access token, also when the stored access
\* token is absent or expired.
C5_ValidTokenWheneverRefreshable ==
    (/\ obs.op = "get_valid_token"
     /\ obs.hadRefresh
     /\ obs.answer.kind = "ok"
     /\ obs.answer.access_token # "")
    => obs.kind = "return"

\* C6: get_valid_token returns the stored access token without contacting the
\* token endpoint exactly when the token has more than 300 seconds left; with
\* 300 seconds or less left no token is returned without a refresh.
C6_MarginDecidesRefresh ==
    (obs.op = "get_valid_token" /\ obs.hadAccess) =>
        ((obs.kind = "return" /\ ~obs.endpoint /\ obs.token = obs.stored)
            <=> obs.remaining > Seconds(300))

----------------------------------------------------------------------------
(* Claims about TokenManager, under SpecTokenStore *)

\* the call just made found both stores working
Sound(op) == tobs.op = op /\ tobs.io = "ok"

\* C14: round trip. A save_token(type, S, ttl) with positive ttl followed by
\* get_token(type) before the expiry, under the same key and with no mutation
\* of that type in between, returns exactly S.
C14_RoundTrip ==
    (/\ Sound("get_token")
     /\ tobs.was.valid
     /\ tobs.was.expires_at > tobs.was.at
     /\ now < tobs.was.expires_at)
    => /\ tobs.some
       /\ tobs.token = tobs.was.token

C14_Witness ==
    /\ Sound("get_token")
    /\ tobs.type = "refresh"
    /\ redisOn
    /\ tobs.was.valid
    /\ now > tobs.was.at
    /\ now < tobs.was.expires_at
    /\ tobs.token = "s3"
    /\ saved["access"].valid

\* C15: in every reachable state the secret field of every record of the
\* durable file and of the external cache is a ciphertext, never the
\* plaintext, and for a record that save_token wrote it is the ciphertext of
\* the saved token under the configured cipher.
C15_SecretsEncrypted ==
    /\ \A type \in DOMAIN file : file[type].token.key \in Keys
    /\ \A type \in DOMAIN redis : redis[type].data.token.key \in Keys
    /\ \A type \in TokenTypes :
           saved[type].valid =>
               /\ type \in DOMAIN file
               /\ file[type].token = EncryptWith(CipherKey, saved[type].token)
               /\ redisOn => /\ type \in DOMAIN redis
                             /\ redis[type].data.token =
                                    EncryptWith(CipherKey, saved[type].token)

C15_Witness ==
    /\ redisOn
    /\ saved["access"].valid
    /\ saved["refresh"].valid
    /\ redis["access"].data.token = EncryptWith(CipherKey, "s2")
    /\ file["refresh"].token = EncryptWith(CipherKey, "s3")

\* C16: lazy expiry. get_token(type) called after the expires_at of the record
\* it finds has passed returns none, and after the call no record of that
\* type is left in the external cache or in the durable file.
C16_LazyExpiry ==
    (Sound("get_token") /\ tobs.expired) =>
        /\ ~tobs.some
        /\ tobs.type \notin DOMAIN file
        /\ tobs.type \notin DOMAIN redis

C16_Witness ==
    /\ Sound("get_token")
    /\ tobs.expired
    /\ redisOn
    /\ tobs.type = "access"
    /\ ~tobs.some
    /\ "access" \notin DOMAIN file
    /\ "refresh" \in DOMAIN file

\* C17: get_token_info finds a record of a type exactly when the lookup of
\* get_token finds one, in every state of the two stores, also when the cache
\* is configured but has no entry for the type while the file has one.
C17_SameLookup ==
    \A type \in TokenTypes :
        LookupInfo(file, redis, redisOn, type, now, "ok").found
            <=> LookupToken(file, redis, redisOn, type, now, "ok").found

\* C18: expiry monotonicity. A token saved with ttl T is reported by
\* get_token_info as not expired right after the save and as expired once more
\* than T seconds have passed since the save, with or without the cache.
C18_ExpiryReported ==
    (Sound("get_token_info") /\ tobs.was.valid) =>
        /\ now = tobs.was.at => (tobs.some /\ ~tobs.is_expired)
        /\ now > tobs.was.expires_at => (tobs.some /\ tobs.is_expired)

\* C19: with the external cache configured the two stores never disagree about
\* liveness: a type has an unexpired record in the cache exactly when it has
\* one in the durable file.
LiveInCache(type) ==
    /\ RedisGet(redis, type, now).found
    /\ now <= RedisGet(redis, type, now).data.expires_at
LiveInFile(type) == type \in DOMAIN file /\ now <= file[type].expires_at

C19_StoresAgree ==
    redisOn => \A type \in TokenTypes : LiveInCache(type) <=> LiveInFile(type)

\* C20: a decryption or I/O failure during get_token or get_token_info is
\* reported as token absent: the call returns none and raises nothing.
C20_FailureMeansAbsent ==
    tobs.op \in {"get_token", "get_token_info"} =>
        /\ ~tobs.raised
        /\ tobs.fault => ~tobs.some

\* a cache record of another key: get_token finds it and cannot decrypt it
C20_Witness ==
    /\ Sound("get_token")
    /\ redisOn
    /\ tobs.fault
    /\ ~tobs.some
    /\ tobs.type \in DOMAIN redis
    /\ ~Decryptable(redis[tobs.type].data.token)

\* the step leaves the record of `type` in the durable file as it was
FileKeeps(type) ==
    /\ (type \in DOMAIN file') <=> (type \in DOMAIN file)
    /\ type \in DOMAIN file => file'[type] = file[type]

\* C33: save_token(type, ...) replaces the whole record of that type and no
\* other: the records of every other token type in the durable file are as
\* they were before the save, and so they are after delete_token(type).
C33_OtherTypesKept ==
    [][\A type \in TokenTypes :
          (\/ \E expires_in \in StoreLifetimes, io \in IoModes :
                 \E token \in StoreTokens[type] : TmSave(type, token, expires_in, io)
           \/ \E io \in IoModes : TmDelete(type, io))
          => \A other \in TokenTypes \ {type} : FileKeeps(other)]_vars

----------------------------------------------------------------------------
(* Claims about the calls of AuthManager, under SpecAuth *)

\* the record of `type` in the file holds `token` and expires at `deadline`
FileHolds(f, type, token, deadline) ==
    /\ type \in DOMAIN f
    /\ Decryptable(f[type].token)
    /\ Decrypt(f[type].token) = token
    /\ f[type].expires_at = deadline

\* the same for the cache, whose key expires at `deadline` too
CacheHolds(r, type, token, deadline) ==
    /\ type \in DOMAIN r
    /\ Decrypt(r[type].data.token) = token
    /\ r[type].data.expires_at = deadline
    /\ r[type].deadline = deadline

\* the lifetime _save_tokens gives the access token of `answer`
DeclaredLifetime(answer) ==
    IF answer.has_expires_in THEN answer.expires_in ELSE 7200

RefreshRejected ==
    /\ obs.op \in {"refresh_access_token", "get_valid_token"}
    /\ obs.endpoint
    /\ obs.answer.kind = "rejected"

C23_TokenExpiredClears ==
    (obs.kind = "raise" /\ obs.error = "TokenExpiredError")
    => /\ file = EmptyMap
       /\ redis = EmptyMap
       /\ ~IsAuthenticated(file, redis, redisOn, now).some

Writes(type) ==
    \/ type \in DOMAIN file' /\ (type \notin DOMAIN file \/ file'[type] # file[type])
    \/ type \in DOMAIN redis' /\ (type \notin DOMAIN redis \/ redis'[type] # redis[type])

\* the call of the step returned what the token endpoint granted: an exchange,
\* or a refresh made with a refresh token that was stored
Granted ==
    /\ obs'.kind = "return"
    /\ obs'.endpoint
    /\ obs'.answer.kind = "ok"
    /\ \/ obs'.op = "exchange_code_for_token"
       \/ obs'.op \in {"refresh_access_token", "get_valid_token"} /\ obs'.hadRefresh

\* C29: with no token stored, no call other than exchange_code_for_token
\* (get_valid_token, which get_async_auth_headers wraps, refresh_access_token,
\* is_authenticated, logout) leaves a token stored; and in any state a token
\* record is written only by an exchange that succeeds or by a refresh that
\* succeeds with a stored refresh token.
C29_TokensOnlyFromGrant ==
    [][/\ (file = EmptyMap /\ redis = EmptyMap
            /\ obs'.op # "exchange_code_for_token")
          => (file' = EmptyMap /\ redis' = EmptyMap)
       /\ \A type \in TokenTypes : Writes(type) => Granted]_vars

\* with nothing stored, and after the clock had moved, get_valid_token was
\* called while the token endpoint would have granted a token; nothing is stored
C29_Witness ==
    /\ obs.op = "get_valid_token"
    /\ obs.answer = OkAnswer("tok1", TRUE, 7200, "ref1")
    /\ obs.kind = "raise"
    /\ ~obs.hadAccess
    /\ ~obs.hadRefresh
    /\ now > 0
    /\ file = EmptyMap
    /\ redis = EmptyMap

\* the step leaves the record of `type` as it was, in the file and in the cache
Keeps(type) ==
    /\ (type \in DOMAIN file') <=> (type \in DOMAIN file)
    /\ type \in DOMAIN file => file'[type] = file[type]
    /\ (type \in DOMAIN redis') <=> (type \in DOMAIN redis)
    /\ type \in DOMAIN redis => redis'[type] = redis[type]

----------------------------------------------------------------------------
(* Claims about the happy path, under SpecHappy *)

\* the stores are as exchange_code_for_token left them at instant x when it
\* got HappyAnswer
ExchangedAt(x) ==
    LET st == ExchangeCodeForToken(EmptyMap, EmptyMap, redisOn, HappyAnswer, x)
    IN  file = st.file /\ redis = st.redis

\* the instant of the exchange, read off the access record
ExchangeTime ==
    IF "access" \in DOMAIN file THEN file["access"].expires_at - Seconds(7200)
                                ELSE NoTime

\* get_valid_token is called `within` or less after the exchange, with no other
\* change of the stores in between, and returns "tok1" without a request to the
\* token endpoint
ReturnsStoredWithin(within) ==
    (/\ obs'.op = "get_valid_token"
     /\ now' = now
     /\ ExchangeTime # NoTime
     /\ ExchangedAt(ExchangeTime)
     /\ now - ExchangeTime <= within)
    => /\ obs'.kind = "return"
       /\ obs'.token = "tok1"
       /\ ~obs'.endpoint

\* C25 as stated: after the exchange of {access_token "tok1", expires_in 7200,
\* refresh_token "ref1"}, every get_valid_token() made within 7200 seconds of
\* the exchange returns "tok1" without any network call.
C25_HappyPathWholeLifetime == [][ReturnsStoredWithin(Seconds(7200))]_vars

\* C25 amended: every get_valid_token() made up to 6899 seconds after that
\* exchange, while the access token has more than 300 whole seconds left,
\* returns "tok1" without any network call.
C25_HappyPathOutsideMargin == [][ReturnsStoredWithin(Seconds(6899))]_vars

\* the code was exchanged after the clock had moved, and 6899 seconds later
\* get_valid_token returned the stored token
C25_Witness ==
    /\ obs.op = "get_valid_token"
    /\ obs.kind = "return"
    /\ obs.token = "tok1"
    /\ ~obs.endpoint
    /\ ExchangeTime > 0
    /\ ExchangedAt(ExchangeTime)
    /\ now - ExchangeTime = Seconds(6899)

----------------------------------------------------------------------------
(* Settings.__init__ over the environment of the process, then              *)
(* TokenManager._init_cipher over the key Settings holds                    *)

\* a variable the environment does not have
NotSet == [kind |-> "not_set", n |-> 0]
\* values of ENCRYPTION_KEY: a Fernet key, a string of 32 characters, and a
\* string that is neither
EnvKeys == {[kind |-> k, n |-> 0] : k \in {"fernet", "chars32", "other"}}
\* _generate_key: 32 characters drawn with secrets.choice, a new draw each call
GeneratedKeys == {[kind |-> "generated", n |-> i] : i \in 1..MaxGenerated}
Placeholder == "change-me-in-production"

Environments ==
    [ENVIRONMENT : {"production", "development"},
     ENCRYPTION_KEY : {NotSet} \cup EnvKeys,
     JWT_SECRET : {Placeholder, "secret"},
     DEBUG : BOOLEAN,
     CAFE24_CLIENT_ID : {"", "id"},
     CAFE24_CLIENT_SECRET : {"", "secret"}]

\* os.getenv(name, default)
GetEnv(value, default) == IF value = NotSet THEN default ELSE value

\* _validate_config, lines 76-92: the errors collected; `again` is the key
\* that the call of _generate_key at line 85 returns
ConfigErrors(env, encryption_key, again) ==
    (IF env.CAFE24_CLIENT_ID = "" THEN {"CAFE24_CLIENT_ID"} ELSE {})
    \cup (IF env.CAFE24_CLIENT_SECRET = "" THEN {"CAFE24_CLIENT_SECRET"} ELSE {})
    \cup (IF env.ENVIRONMENT = "production" /\ encryption_key = again
          THEN {"ENCRYPTION_KEY"} ELSE {})
    \cup (IF env.ENVIRONMENT = "production" /\ env.JWT_SECRET = Placeholder
          THEN {"JWT_SECRET"} ELSE {})
    \cup (IF env.ENVIRONMENT = "production" /\ env.DEBUG THEN {"DEBUG"} ELSE {})

\* Settings.__init__: `drawn` is the key _generate_key returns at line 31
SettingsInit(env, drawn, again) ==
    LET encryption_key == GetEnv(env.ENCRYPTION_KEY, drawn)
        errors == ConfigErrors(env, encryption_key, again)
    IN  [phase |-> IF errors # {} /\ env.ENVIRONMENT = "production"
                   THEN "failed" ELSE "started",
         env |-> env,
         encryption_key |-> encryption_key,
         cipher |-> NotSet]

\* _init_cipher: a 32-character key is encoded, a Fernet key is used as it is,
\* and for any other a new key is made by Fernet.generate_key()
InitCipher(encryption_key, fresh) ==
    IF encryption_key.kind \in {"generated", "chars32", "fernet"}
    THEN encryption_key ELSE fresh

\* the process starts: settings.py:157
MakeSettings(drawn, again) ==
    /\ settings.phase = "env"
    /\ settings' = SettingsInit(settings.env, drawn, again)
    /\ UNCHANGED <<now, file, redis, redisOn, obs, nAdv, max_retries, stack, pc,
                   outcome, attempts, refreshes, only, budget, lastEvent,
                   requests_this_minute, rate_limit_reset, sleepers, passed, tobs,
                   saved, session, flight>>

\* AuthManager.__init__ makes the TokenManager: auth_manager.py:24
MakeTokenManager(fresh) ==
    /\ settings.phase = "started"
    /\ settings' = [settings EXCEPT
                       !.phase = "serving",
                       !.cipher = InitCipher(settings.encryption_key, fresh)]
    /\ UNCHANGED <<now, file, redis, redisOn, obs, nAdv, max_retries, stack, pc,
                   outcome, attempts, refreshes, only, budget, lastEvent,
                   requests_this_minute, rate_limit_reset, sleepers, passed, tobs,
                   saved, session, flight>>

InitSettings ==
    /\ now = 0
    /\ redisOn = FALSE
    /\ file = EmptyMap
    /\ redis = EmptyMap
    /\ obs = NoObs
    /\ nAdv = 0
    /\ max_retries = MaxRetries
    /\ stack = <<>>
    /\ pc = "idle"
    /\ outcome = NoOutcome
    /\ attempts = 0
    /\ refreshes = 0
    /\ only = "none"
    /\ budget = 0
    /\ lastEvent = NoEvent
    /\ requests_this_minute = 0
    /\ rate_limit_reset = NoTime
    /\ sleepers = NoSleepers
    /\ passed = 0
    /\ tobs = NoTobs
    /\ saved = NoSaved
    /\ session = NoSession
    /\ flight = NoFlight
    /\ \E env \in Environments : settings = [phase |-> "env", env |-> env]

NextSettings ==
    \/ \E drawn, again \in GeneratedKeys : MakeSettings(drawn, again)
    \/ \E fresh \in GeneratedKeys : MakeTokenManager(fresh)

SpecSettings == InitSettings /\ [][NextSettings]_vars

\* the process got past Settings() in a production configuration
StartedInProduction ==
    /\ settings.phase \in {"started", "serving"}
    /\ settings.env.ENVIRONMENT = "production"

\* C26: in production mode Settings does not start with a default or
\* placeholder secret: when ENCRYPTION_KEY is not set startup fails, and no
\* production process encrypts with a key that was generated at startup.
C26_ProductionRefusesGeneratedKey ==
    StartedInProduction
    => /\ settings.env.ENCRYPTION_KEY # NotSet
       /\ settings.encryption_key.kind # "generated"
       /\ settings.env.JWT_SECRET # Placeholder
       /\ settings.phase = "serving" => settings.cipher.kind # "generated"

----------------------------------------------------------------------------
(* ProductAPI.get_product over what Cafe24Client.get gave it *)

\* products.py:84-102: the product taken out of the response, None for an
\* APIError whose status_code is 404, any other APIError raised again, and
\* every other exception (a response of None has no `in`) wrapped in APIError
GetProduct(got) ==
    IF got.kind = "return"
    THEN IF got.value = "None"
         THEN [kind |-> "raise", value |-> "", error |-> "APIError", status |-> 0]
         ELSE [kind |-> "return", value |-> got.value, error |-> "", status |-> 0]
    ELSE IF IsInstance(got.error, "APIError")
    THEN IF got.status = 404
         THEN [kind |-> "return", value |-> "None", error |-> "", status |-> 0]
         ELSE [kind |-> "raise", value |-> "", error |-> got.error,
               status |-> got.status]
    ELSE [kind |-> "raise", value |-> "", error |-> "APIError", status |-> 0]

\* C27: get_product(product_no) returns None, and raises nothing, when the
\* upstream answers 404 to the request for that product.
C27_NotFoundIsNone ==
    (/\ pc = "done"
     /\ budget = max_retries
     /\ only = "client_error"
     /\ lastEvent.status = 404)
    => /\ GetProduct(outcome).kind = "return"
       /\ GetProduct(outcome).value = "None"

----------------------------------------------------------------------------
(* Cafe24Client._get_session and close, called by coroutines that share the *)
(* client. Transports are numbered as they are made; cache = 0 is a         *)
(* _session_cache without the key 'httpx_client'. _get_session awaits       *)
(* nothing and is one step; close is two, split at `await ...aclose()`.     *)

SessionStep(next) ==
    /\ session' = next
    /\ UNCHANGED <<now, file, redis, redisOn, obs, nAdv, max_retries, stack, pc,
                   outcome, attempts, refreshes, only, budget, lastEvent,
                   requests_this_minute, rate_limit_reset, sleepers, passed, tobs,
                   saved, settings, flight>>

\* lines 44-58, called by request at line 135
GetSession(c) ==
    /\ session.closing[c] = 0
    /\ IF session.cache = 0
       THEN /\ session.made < MaxTransports
            /\ SessionStep([session EXCEPT
                   !.made = @ + 1,
                   !.cache = session.made + 1,
                   !.open = @ \cup {session.made + 1},
                   !.closed = Append(@, 0),
                   !.op = "opened",
                   !.got = session.made + 1])
       ELSE SessionStep([session EXCEPT !.op = "reused", !.got = session.cache])

\* lines 62-63: without the key close returns; with it, aclose() is called on
\* the cached transport and the coroutine waits for it
CloseBegin(c) ==
    /\ session.closing[c] = 0
    /\ IF session.cache = 0
       THEN SessionStep([session EXCEPT !.op = "close_noop", !.got = 0])
       ELSE SessionStep([session EXCEPT
                !.open = @ \ {session.cache},
                !.closed[session.cache] = @ + 1,
                !.closing[c] = session.cache,
                !.op = "closing",
                !.got = 0])

\* line 64: del self._session_cache['httpx_client'], KeyError without the key
CloseEnd(c) ==
    /\ session.closing[c] # 0
    /\ SessionStep([session EXCEPT
           !.cache = 0,
           !.closing[c] = 0,
           !.op = IF session.cache = 0 THEN "close_raised" ELSE "closed",
           !.got = 0])

InitSession ==
    /\ InitThrottle

NextSession ==
    \/ \E c \in Callers : GetSession(c)
    \/ \E c \in Callers : CloseBegin(c)
    \/ \E c \in Callers : CloseEnd(c)

SpecSession == InitSession /\ [][NextSession]_vars

\* C28: a client has at most one transport open at any time; a request gets
\* the cached transport, opened on the first request; once close() has
\* returned none is open; a close() with nothing cached does nothing; and no
\* transport is closed twice or dropped from the cache unclosed.
C28_OneTransportClosedOnce ==
    /\ Cardinality(session.open) <= 1
    /\ session.op \in {"opened", "reused"} => session.got = session.cache
    /\ session.op \in {"closed", "close_noop"} => session.open = {}
    /\ session.op # "close_raised"
    /\ \A i \in 1..session.made :
          /\ session.closed[i] <= 1
          /\ i \in session.open \/ session.closed[i] = 1

----------------------------------------------------------------------------
(* Further claims about Cafe24Client.request, under SpecRequest *)

\* C31: the wait before the retry that follows a 5xx answer is 2 seconds times
\* the number of HTTP attempts the outer call has made so far: 2 after the
\* first attempt, 4 after the second, 6 after the third.
C31_LinearBackoff ==
    [][(/\ pc = "send"
        /\ attempts' = attempts + 1
        /\ lastEvent'.class = "server_error"
        /\ pc' = "throttle")
       => now' - now = Seconds(2 * attempts')]_vars

\* the failure classes of an attempt, authentication apart
FailureClasses == {"server_error", "429", "client_error", "timeout", "transport"}

\* C34: an outer call whose attempts all fail, with a 5xx, a 429, another 4xx,
\* a timeout or another transport error, and that was started with retry
\* budget N, makes at most N + 1 HTTP attempts in total.
C34_AttemptsWithinBudget ==
    only \in FailureClasses => attempts <= budget + 1

\* C35: an attempt made with retry budget zero starts no other attempt,
\* whatever its answer, a 401 with settings.max_retries = 0 included: it
\* returns or raises, so no attempt is made with a negative budget.
C35_BudgetNeverNegative ==
    \A i \in 1..Len(stack) : stack[i].retry_count >= 0

\* the values request returns that are mappings: the parsed body, the
\* envelope around a body that is not JSON, and the 204 message
Envelopes == {"json", "envelope", "no_content"}
\* the errors of src/core/exceptions.py that request raises
TypedErrors ==
    {"APIError", "AuthenticationError", "TokenExpiredError", "RateLimitError",
     "NetworkError"}

\* C38: every call to request returns a response envelope, a mapping, or
\* raises a typed error, for every status code of the answer, those outside
\* 200, 201, 204, 4xx and 5xx included; it never returns without a value.
C38_ReturnsEnvelopeOrRaises ==
    pc = "done" =>
        \/ outcome.kind = "return" /\ outcome.value \in Envelopes
        \/ outcome.kind = "raise" /\ outcome.error \in TypedErrors

----------------------------------------------------------------------------
(* A further claim about TokenManager.save_token, under SpecTokenStore *)

\* C39: save_token returns true only if the record was written to the durable
\* file: when the write of the file fails it returns false, and after a save
\* that returned true the durable file holds the record.
C39_TrueMeansWritten ==
    [][\A type \in TokenTypes, expires_in \in StoreLifetimes, io \in IoModes :
          \A token \in StoreTokens[type] :
             (/\ TmSave(type, token, expires_in, io)
              /\ SaveToken(file, redis, redisOn, type, token, expires_in, now, io).ok)
             => FileHolds(file', type, token, now + Seconds(expires_in))]_vars

----------------------------------------------------------------------------
(* AuthManager shared by coroutines: the web routes and the client use one   *)
(* AuthManager (web/app.py:54), and refresh_access_token gives the event     *)
(* loop away at `await client.post(...)` (auth_manager.py:140). A refresh is *)
(* two steps, split there; what runs before the await is one step.           *)

RefreshEntries == {"get_valid_token", "refresh_access_token"}
RefreshAnswers ==
    {OkAnswer("tok2", TRUE, 7200, "ref2"), OkAnswer("tok2", TRUE, 301, ""),
     Rejected, Failed}
RefreshSteps == {1, Seconds(301)}

InFlight == {c \in Callers : flight.sent[c] # ""}

RefreshFrame ==
    UNCHANGED <<redisOn, obs, max_retries, stack, pc, outcome, attempts, refreshes,
                only, budget, lastEvent, requests_this_minute, rate_limit_reset,
                sleepers, passed, tobs, saved, settings, session>>

\* get_valid_token lines 168-180 (or a direct call, as by the 401 handler of
\* the client) and refresh_access_token lines 117-140: the stored refresh
\* token is read and put in the request
RefreshBegin(c, entry) ==
    /\ flight.sent[c] = ""
    /\ LET at == GetToken(file, redis, redisOn, "access", now, "ok")
           st == IF entry = "get_valid_token" THEN at
                 ELSE [file |-> file, redis |-> redis]
           needed == \/ entry = "refresh_access_token"
                     \/ /\ at.some
                        /\ ~FreshEnough(GetTokenInfo(at.file, at.redis, redisOn,
                                                     "access", now, "ok"))
           rt == GetToken(st.file, st.redis, redisOn, "refresh", now, "ok")
       IN  /\ file' = IF needed THEN rt.file ELSE st.file
           /\ redis' = IF needed THEN rt.redis ELSE st.redis
           /\ flight' = IF needed /\ rt.some
                        THEN [flight EXCEPT !.sent[c] = rt.token,
                                            !.overtaken[c] = FALSE]
                        ELSE flight
    /\ UNCHANGED <<now, nAdv>>
    /\ RefreshFrame

\* refresh_access_token lines 141-159, when the answer has arrived. The
\* requests that were awaiting their answer when a refresh saved its tokens
\* are marked: they carry the refresh token of before.
RefreshEnd(c, answer) ==
    /\ flight.sent[c] # ""
    /\ LET res == RefreshResponse(file, redis, redisOn, answer, now)
       IN  /\ file' = res.file
           /\ redis' = res.redis
           /\ flight' =
                [sent |-> [flight.sent EXCEPT ![c] = ""],
                 overtaken |->
                    IF res.kind = "return"
                    THEN [d \in Callers |-> d # c /\ d \in InFlight]
                    ELSE [flight.overtaken EXCEPT ![c] = FALSE],
                 granted |->
                    IF res.kind = "return"
                    THEN [valid |-> TRUE, token |-> answer.access_token,
                          expires_at |-> now + Seconds(DeclaredLifetime(answer))]
                    ELSE IF answer.kind = "rejected" /\ ~flight.overtaken[c]
                    THEN NoGrant
                    ELSE flight.granted]
    /\ UNCHANGED <<now, nAdv>>
    /\ RefreshFrame

\* logout, between two steps of the refreshes
RefreshLogout ==
    /\ file' = ClearAll(file, redis, redisOn, "ok").file
    /\ redis' = ClearAll(file, redis, redisOn, "ok").redis
    /\ flight' = [flight EXCEPT !.granted = NoGrant]
    /\ UNCHANGED <<now, nAdv>>
    /\ RefreshFrame

RefreshTick(d) ==
    /\ nAdv < MaxAdvances
    /\ nAdv' = nAdv + 1
    /\ now' = now + d
    /\ UNCHANGED <<file, redis, flight>>
    /\ RefreshFrame

InitRefresh == InitAuth

NextRefresh ==
    \/ \E c \in Callers, entry \in RefreshEntries : RefreshBegin(c, entry)
    \/ \E c \in Callers, answer \in RefreshAnswers : RefreshEnd(c, answer)
    \/ RefreshLogout
    \/ \E d \in RefreshSteps : RefreshTick(d)

SpecRefresh == InitRefresh /\ [][NextRefresh]_vars

\* C36: when two or more concurrent callers find the access token within the
\* safety margin, at most one refresh request is in flight to the token
\* endpoint at a time: the stored refresh token is not sent a second time
\* while a request that carries it awaits its answer.
C36_OneRefreshInFlight ==
    \A c, d \in InFlight : c = d

\* C37: the tokens a successful refresh has saved are not removed by another
\* caller's concurrent refresh. After a refresh has succeeded, with no logout
\* and no rejected refresh begun after it, the access token it saved stays
\* stored until it expires, also when a refresh that was in flight with the
\* refresh token of before is rejected.
C37_GrantSurvivesConcurrentRefresh ==
    (flight.granted.valid /\ now <= flight.granted.expires_at) =>
        Stored(file, redis, redisOn, "access", now).has

====
